---- MODULE Spec2Model ----
(***************************************************************************)
(* Smart HVAC control system: the three controllers (PID, On-Off, Fuzzy), *)
(* the building ThermalModel, the SensorManager and the Config manager as  *)
(* state machines.                                                         *)
(*                                                                         *)
(* Numbers.  The code computes in floats; the model computes exactly.      *)
(*  - setpoints, measurements, errors and clock readings are integers;     *)
(*  - PID gains are integers in units of 1/GainScale (kp = 2.0 is 40);     *)
(*  - a returned control output is a fraction <<num, den>>, den > 0, in    *)
(*    lowest terms;                                                        *)
(*  - fuzzy membership degrees are integers in units of 1/MScale;          *)
(*  - ThermalModel temperatures and humidities are integers in units of   *)
(*    1/TempScale, computed to about 1/10000 of a degree; its odeint step  *)
(*    is the series solution of the linear system over the step;           *)
(*  - sensor values are integers, NaN is a value of its own.               *)
(***************************************************************************)
EXTENDS Integers, Sequences, FiniteSets

VARIABLES
    current_controller,   \* which controller object the calls go to: "pid", "onoff", "fuzzy"
    kp, ki, kd,           \* PIDController gains, in units of 1/GainScale
    pid_temp_state,       \* PIDController._temp_state
    pid_humidity_state,   \* PIDController._humidity_state
    ncalls,               \* number of PIDController operations performed so far
    deadband,             \* OnOffController.deadband
    temp_state,           \* OnOffController.temp_state
    humidity_state,       \* OnOffController.humidity_state
    prev_temp_error,      \* FuzzyController.prev_temp_error
    prev_humidity_error,  \* FuzzyController.prev_humidity_error
    op,                   \* the last operation performed
    err,                  \* error = setpoint - current_value of the last calculate_* call
    now,                  \* time.time() as read by the last PID calculate_* call
    ret,                  \* value returned by the last calculate_* call
    pre_pid,              \* the PID channel state the last PID calculate_* call started from
    pre_mode,             \* the On-Off channel mode the last On-Off calculate_* call started from
    raised,               \* whether the fuzzy inference of the last Fuzzy calculate_* call raised
    indoor_temp,          \* ThermalModel.indoor_temp
    wall_temp,            \* ThermalModel.wall_temp
    indoor_humidity,      \* ThermalModel.indoor_humidity
    outdoor_temp,         \* ThermalModel.outdoor_temp
    outdoor_humidity,     \* ThermalModel.outdoor_humidity
    time,                 \* ThermalModel.time, in seconds
    history,              \* ThermalModel.history: the eight series
    params,               \* ThermalModel.params: internal_gains and solar_gains, in W
    command,              \* the control outputs <<temperature, humidity>> the caller applies in this run
    nupdates,             \* number of update calls since construction or the last reset
    fresh,                \* a ThermalModel constructed at the last reset and given the same updates since
    sensor_history,       \* SensorManager.sensor_history
    sensor_ret,           \* value returned by the last SensorManager call
    nreads,               \* number of read_all_sensors calls so far, also the clock reading of the next
    noisy,                \* the sensors whose readings vary and fault in this run
    config,               \* Config.config: the HVACConfig fields the operations check
    config_file,          \* the contents of Config.config_file as last saved
    config_raised,        \* whether the last Config operation raised ValueError
    twin                  \* a second HVACControlSystem given the same sensor draws and setpoints

vars == <<current_controller, kp, ki, kd, pid_temp_state, pid_humidity_state, ncalls,
          deadband, temp_state, humidity_state, prev_temp_error, prev_humidity_error,
          op, err, now, ret, pre_pid, pre_mode, raised,
          indoor_temp, wall_temp, indoor_humidity, outdoor_temp, outdoor_humidity,
          time, history, params, command, nupdates, fresh,
          sensor_history, sensor_ret, nreads, noisy,
          config, config_file, config_raised, twin>>

pidVars == <<kp, ki, kd, pid_temp_state, pid_humidity_state, ncalls, now, pre_pid>>
onoffVars == <<deadband, temp_state, humidity_state, pre_mode>>
fuzzyVars == <<prev_temp_error, prev_humidity_error, raised>>
controllerVars == <<current_controller, pidVars, onoffVars, fuzzyVars, err, ret>>
thermalVars == <<indoor_temp, wall_temp, indoor_humidity, outdoor_temp, outdoor_humidity,
                 time, history, params, command, nupdates, fresh>>
sensorVars == <<sensor_history, sensor_ret, nreads, noisy>>
configVars == <<config, config_file, config_raised>>
loopVars == <<twin>>

-----------------------------------------------------------------------------
(* Bounds of the model *)

\* clock readings are 0..MaxTime
MaxTime == 2
\* at most MaxCalls operations on the PID controller in one run
MaxCalls == 3
\* On-Off deadbands are 0..MaxDeadband
MaxDeadband == 3
\* at most MaxUpdates ThermalModel.update calls between resets in the runs that
\* fill the history, at most MaxShortUpdates in the others
MaxUpdates == 1442
MaxShortUpdates == 300
\* at most MaxResetUpdates update calls after a reset
MaxResetUpdates == 30
\* at most MaxLongReads read_all_sensors calls in a run without a noisy sensor,
\* MaxReads with one noisy sensor, MaxPairReads with two
MaxLongReads == 102
MaxReads == 6
MaxPairReads == 3

Times == 0..MaxTime

\* <<indoor_temp, indoor_humidity>> when the first update is called: the
\* constructor's values, or the values the demos assign
FreshStart == <<22, 45>>
Starts == {FreshStart, <<18, 35>>, <<25, 45>>}
\* building_params: the defaults, or no internal and solar gains
DefaultGains == [internal_gains |-> 2000, solar_gains |-> 1000]
GainSets == {DefaultGains, [internal_gains |-> 0, solar_gains |-> 0]}
\* control outputs <<temperature, humidity>> applied at every update of a run
Commands == {<<0, 0>>, <<100, 100>>, <<-100, -100>>, <<50, -50>>}
\* the sets of noisy sensors of a run
NoisySets == {{}, {"temp_zone1"}, {"temp_outdoor"}, {"humidity_zone2"},
              {"temp_zone1", "temp_zone2"}}
ReadLimit(n) ==
    IF n = {} THEN MaxLongReads
    ELSE IF Cardinality(n) = 1 THEN MaxReads ELSE MaxPairReads
\* the runs that go on until the history is full and evicts
RunLength(c, p) == IF c = <<100, 100>> /\ p = DefaultGains THEN MaxUpdates ELSE MaxShortUpdates

\* (setpoint, current_value) pairs handed to the PID controller
PidInputs == {<<25, 20>>, <<20, 25>>, <<22, 22>>, <<50, 0>>}
\* (kp, ki, kd) in units of 1/GainScale: the constructor's defaults (1.0, 0.0, 0.0),
\* the gains main.py and the tests use (2.0, 0.1, 0.05), (2.0, 2.0, 0.05), and
\* the proportional-derivative gains (2.0, 0.0, 0.05)
Gains == {<<20, 0, 0>>, <<40, 2, 1>>, <<40, 40, 1>>, <<40, 0, 1>>}
TestGains == <<40, 2, 1>>

\* inputs of the On-Off controller
OnOffTempInputs == {<<22, m>> : m \in 17..27}
OnOffHumidityInputs == {<<50, m>> : m \in 40..60}
Deadbands == 0..MaxDeadband

\* inputs of the fuzzy controller
FuzzyTempInputs == {<<22, m>> : m \in {10, 12, 17, 18, 21, 22, 23, 26, 27, 32, 34}}
FuzzyHumidityInputs == {<<50, m>> : m \in {25, 40, 50, 60, 75}}

-----------------------------------------------------------------------------
(* Fractions *)

Abs(x) == IF x < 0 THEN -x ELSE x

RECURSIVE GCD(_, _)
GCD(a, b) == IF b = 0 THEN a ELSE GCD(b, a % b)

\* n/d in lowest terms, d > 0
Frac(n, d) ==
    LET g == GCD(Abs(n), d) IN <<n \div g, d \div g>>

Zero == <<0, 1>>
Whole(n) == <<n, 1>>

Positive(q) == q[1] > 0
Negative(q) == q[1] < 0
\* lo <= q <= hi for integers lo, hi
Within(q, lo, hi) == lo * q[2] <= q[1] /\ q[1] <= hi * q[2]

-----------------------------------------------------------------------------
(* PIDController *)

GainScale == 20
OutMin == -100
OutMax == 100
\* last_time = None
NoTime == -1

PidInitState == [last_error |-> 0, integral |-> 0, last_time |-> NoTime]

\* The anti-windup clamp of the accumulator.  For ki = 0 the condition of the
\* first "if" is float('inf'), which is true, and the accumulator is set to 0.
\* (integral > limit / ki is integral * ki > limit for the gains ki >= 0 of the
\* model; the limits divided by the model's gains are integers.)
NoWindupClamp(acc) == acc
Windup(acc) ==
    IF ki = 0 THEN 0
    ELSE IF acc * ki > OutMax * GainScale THEN (OutMax * GainScale) \div ki
    ELSE IF acc * ki < OutMin * GainScale THEN (OutMin * GainScale) \div ki
    ELSE acc

\* output = max(min(output, output_limits[1]), output_limits[0]) for output = num/den
NoClampOutput(num, den) == Frac(num, den)
ClampOutput(num, den) ==
    IF num > OutMax * den THEN Whole(OutMax)
    ELSE IF num < OutMin * den THEN Whole(OutMin)
    ELSE Frac(num, den)

\* first run of a channel: seed last_time and last_error, return 0.0
PidSeedNoError(st, error, t) ==
    [st |-> [st EXCEPT !.last_time = t], out |-> Zero]
PidSeed(st, error, t) ==
    [st |-> [st EXCEPT !.last_time = t, !.last_error = error], out |-> Zero]

\* dt <= 0: return 0.0, nothing written
PidStaleWrites(st, error, t) ==
    [st |-> [st EXCEPT !.last_error = error, !.last_time = t], out |-> Zero]
PidStale(st, error, t) ==
    [st |-> st, out |-> Zero]

\* dt > 0: the three terms, the clamp, the state update
PidCompute(st, error, t) ==
    LET dt == t - st.last_time
        integral == Windup(st.integral + error * dt)
        \* GainScale * dt * (kp*error + ki*integral + kd*(error - last_error)/dt)
        num == (kp * error + ki * integral) * dt + kd * (error - st.last_error)
    IN  [st  |-> [last_error |-> error, integral |-> integral, last_time |-> t],
         out |-> ClampOutput(num, GainScale * dt)]

\* _calculate_pid_output on the channel state st, with time.time() = t
CalculatePidOutput(st, error, t) ==
    IF st.last_time = NoTime THEN PidSeed(st, error, t)
    ELSE IF t - st.last_time <= 0 THEN PidStale(st, error, t)
    ELSE PidCompute(st, error, t)

PidIdle == UNCHANGED <<onoffVars, fuzzyVars, thermalVars, sensorVars, configVars, loopVars>>

\* _temp_state and _humidity_state are two dictionaries: the one a call hands to
\* _calculate_pid_output is written, the other is a different object and keeps
\* its entries
OtherChannelShared(other, written) == written
OtherChannel(other, written) == other

PidCalculateTemperature ==
    /\ current_controller = "pid"
    /\ ncalls < MaxCalls
    /\ \E in \in PidInputs, t \in Times :
         LET error == in[1] - in[2]
             r == CalculatePidOutput(pid_temp_state, error, t)
         IN  /\ pid_temp_state' = r.st
             /\ ret' = r.out
             /\ err' = error
             /\ now' = t
             /\ pre_pid' = pid_temp_state
    /\ op' = "calculate_temperature_control"
    /\ ncalls' = ncalls + 1
    /\ pid_humidity_state' = OtherChannel(pid_humidity_state, pid_temp_state')
    /\ UNCHANGED <<current_controller, kp, ki, kd>>
    /\ PidIdle

PidCalculateHumidity ==
    /\ current_controller = "pid"
    /\ ncalls < MaxCalls
    /\ \E in \in PidInputs, t \in Times :
         LET error == in[1] - in[2]
             r == CalculatePidOutput(pid_humidity_state, error, t)
         IN  /\ pid_humidity_state' = r.st
             /\ ret' = r.out
             /\ err' = error
             /\ now' = t
             /\ pre_pid' = pid_humidity_state
    /\ op' = "calculate_humidity_control"
    /\ ncalls' = ncalls + 1
    /\ pid_temp_state' = OtherChannel(pid_temp_state, pid_humidity_state')
    /\ UNCHANGED <<current_controller, kp, ki, kd>>
    /\ PidIdle

PidReset ==
    /\ current_controller = "pid"
    /\ ncalls < MaxCalls
    /\ pid_temp_state' = PidInitState
    /\ pid_humidity_state' = PidInitState
    /\ op' = "reset"
    /\ ncalls' = ncalls + 1
    /\ UNCHANGED <<current_controller, kp, ki, kd, err, now, ret, pre_pid>>
    /\ PidIdle

PidTuneParameters ==
    /\ current_controller = "pid"
    /\ ncalls < MaxCalls
    /\ \E g \in Gains :
         /\ kp' = g[1]
         /\ ki' = g[2]
         /\ kd' = g[3]
    /\ op' = "tune_parameters"
    /\ ncalls' = ncalls + 1
    /\ UNCHANGED <<current_controller, pid_temp_state, pid_humidity_state, err, now, ret, pre_pid>>
    /\ PidIdle

-----------------------------------------------------------------------------
(* OnOffController *)

\* the conditions of calculate_temperature_control, for error and deadband d
\* (error < -d / 2 is 2 * error < -d)
OffToHeatingAtZero(error, d) == error > 0
OffToHeating(error, d) == error > d
OffToCoolingInclusive(error, d) == error <= -d
OffToCooling(error, d) == error < -d
HeatingSwitchOffFullBand(error, d) == error < -d
HeatingSwitchOff(error, d) == 2 * error < -d
CoolingSwitchOffAtSetpoint(error, d) == error > 0
CoolingSwitchOff(error, d) == 2 * error > d

\* calculate_temperature_control from mode, with error = setpoint - current_value
TemperatureControl(mode, error) ==
    IF mode = "off" THEN
        IF OffToHeating(error, deadband) THEN [mode |-> "heating", out |-> Whole(100)]
        ELSE IF OffToCooling(error, deadband) THEN [mode |-> "cooling", out |-> Whole(-100)]
        ELSE [mode |-> mode, out |-> Zero]
    ELSE IF mode = "heating" THEN
        IF HeatingSwitchOff(error, deadband) THEN [mode |-> "off", out |-> Zero]
        ELSE IF error < -deadband THEN [mode |-> "cooling", out |-> Whole(-100)]
        ELSE [mode |-> mode, out |-> Whole(100)]
    ELSE IF mode = "cooling" THEN
        IF CoolingSwitchOff(error, deadband) THEN [mode |-> "off", out |-> Zero]
        ELSE IF error > deadband THEN [mode |-> "heating", out |-> Whole(100)]
        ELSE [mode |-> mode, out |-> Whole(-100)]
    ELSE [mode |-> mode, out |-> Zero]

\* calculate_humidity_control from mode
HumidityControl(mode, error) ==
    LET humidity_deadband == deadband * 2 IN
    IF mode = "off" THEN
        IF error > humidity_deadband THEN [mode |-> "humidifying", out |-> Whole(100)]
        ELSE IF error < -humidity_deadband THEN [mode |-> "dehumidifying", out |-> Whole(-100)]
        ELSE [mode |-> mode, out |-> Zero]
    ELSE IF mode = "humidifying" THEN
        IF 2 * error < -humidity_deadband THEN [mode |-> "off", out |-> Zero]
        ELSE IF error < -humidity_deadband THEN [mode |-> "dehumidifying", out |-> Whole(-100)]
        ELSE [mode |-> mode, out |-> Whole(100)]
    ELSE IF mode = "dehumidifying" THEN
        IF 2 * error > humidity_deadband THEN [mode |-> "off", out |-> Zero]
        ELSE IF error > humidity_deadband THEN [mode |-> "humidifying", out |-> Whole(100)]
        ELSE [mode |-> mode, out |-> Whole(-100)]
    ELSE [mode |-> mode, out |-> Zero]

OnOffIdle == UNCHANGED <<pidVars, fuzzyVars, thermalVars, sensorVars, configVars, loopVars>>

OnOffCalculateTemperature ==
    /\ current_controller = "onoff"
    /\ \E in \in OnOffTempInputs :
         LET error == in[1] - in[2]
             r == TemperatureControl(temp_state, error)
         IN  /\ temp_state' = r.mode
             /\ ret' = r.out
             /\ err' = error
    /\ pre_mode' = temp_state
    /\ op' = "calculate_temperature_control"
    /\ UNCHANGED <<current_controller, deadband, humidity_state>>
    /\ OnOffIdle

OnOffCalculateHumidity ==
    /\ current_controller = "onoff"
    /\ \E in \in OnOffHumidityInputs :
         LET error == in[1] - in[2]
             r == HumidityControl(humidity_state, error)
         IN  /\ humidity_state' = r.mode
             /\ ret' = r.out
             /\ err' = error
    /\ pre_mode' = humidity_state
    /\ op' = "calculate_humidity_control"
    /\ UNCHANGED <<current_controller, deadband, temp_state>>
    /\ OnOffIdle

OnOffReset ==
    /\ current_controller = "onoff"
    /\ temp_state' = "off"
    /\ humidity_state' = "off"
    /\ op' = "reset"
    /\ UNCHANGED <<current_controller, deadband, err, ret, pre_mode>>
    /\ OnOffIdle

OnOffSetDeadband ==
    /\ current_controller = "onoff"
    /\ \E d \in Deadbands : deadband' = d
    /\ op' = "set_deadband"
    /\ UNCHANGED <<current_controller, temp_state, humidity_state, err, ret, pre_mode>>
    /\ OnOffIdle

-----------------------------------------------------------------------------
(* FuzzyController *)

MScale == 600

Min2(a, b) == IF a < b THEN a ELSE b
Max2(a, b) == IF a > b THEN a ELSE b
\* np.clip(x, lo, hi)
Clip(x, lo, hi) == IF x < lo THEN lo ELSE IF x > hi THEN hi ELSE x

\* fuzz.trimf(universe, [a, b, c]) at the point x, in units of 1/MScale
Trimf(x, a, b, c) ==
    IF x = b THEN MScale
    ELSE IF a < x /\ x < b THEN (MScale * (x - a)) \div (b - a)
    ELSE IF b < x /\ x < c THEN (MScale * (c - x)) \div (c - b)
    ELSE 0

TempErrorMF(label, x) ==
    CASE label = "negative_large" -> Trimf(x, -10, -10, -5)
      [] label = "negative_small" -> Trimf(x, -7, -3, 0)
      [] label = "zero"           -> Trimf(x, -2, 0, 2)
      [] label = "positive_small" -> Trimf(x, 0, 3, 7)
      [] label = "positive_large" -> Trimf(x, 5, 10, 10)

TempErrorRateMF(label, x) ==
    CASE label = "negative" -> Trimf(x, -5, -5, 0)
      [] label = "zero"     -> Trimf(x, -2, 0, 2)
      [] label = "positive" -> Trimf(x, 0, 5, 5)

HumidityErrorMF(label, x) ==
    CASE label = "negative_large" -> Trimf(x, -20, -20, -10)
      [] label = "negative_small" -> Trimf(x, -15, -5, 0)
      [] label = "zero"           -> Trimf(x, -5, 0, 5)
      [] label = "positive_small" -> Trimf(x, 0, 5, 15)
      [] label = "positive_large" -> Trimf(x, 10, 20, 20)

\* the universe of both outputs: np.arange(-100, 101, 1)
OutputUniverse == -100..100

TempOutputLabels == {"cooling_high", "cooling_low", "off", "heating_low", "heating_high"}
HumidityOutputLabels ==
    {"dehumidify_high", "dehumidify_low", "off", "humidify_low", "humidify_high"}

TempOutputMF(label, x) ==
    CASE label = "cooling_high" -> Trimf(x, -100, -100, -50)
      [] label = "cooling_low"  -> Trimf(x, -70, -30, 0)
      [] label = "off"          -> Trimf(x, -20, 0, 20)
      [] label = "heating_low"  -> Trimf(x, 0, 30, 70)
      [] label = "heating_high" -> Trimf(x, 50, 100, 100)

HumidityOutputMF(label, x) ==
    CASE label = "dehumidify_high" -> Trimf(x, -100, -100, -50)
      [] label = "dehumidify_low"  -> Trimf(x, -70, -30, 0)
      [] label = "off"             -> Trimf(x, -20, 0, 20)
      [] label = "humidify_low"    -> Trimf(x, 0, 30, 70)
      [] label = "humidify_high"   -> Trimf(x, 50, 100, 100)

\* the output membership functions sampled on the universe
TempOutputTable ==
    [l \in TempOutputLabels |-> [x \in OutputUniverse |-> TempOutputMF(l, x)]]
HumidityOutputTable ==
    [l \in HumidityOutputLabels |-> [x \in OutputUniverse |-> HumidityOutputMF(l, x)]]

\* temp_rules: the firing strength each output term is cut at (AND is min,
\* rules with the same consequent accumulate by max)
TempCuts(error, error_rate) ==
    [heating_high |-> TempErrorMF("negative_large", error),
     heating_low  |-> TempErrorMF("negative_small", error),
     off          |-> Max2(TempErrorMF("zero", error),
                        Max2(Min2(TempErrorMF("negative_small", error),
                                  TempErrorRateMF("positive", error_rate)),
                             Min2(TempErrorMF("positive_small", error),
                                  TempErrorRateMF("negative", error_rate)))),
     cooling_low  |-> TempErrorMF("positive_small", error),
     cooling_high |-> TempErrorMF("positive_large", error)]

\* humidity_rules
HumidityCuts(error) ==
    [humidify_high   |-> HumidityErrorMF("negative_large", error),
     humidify_low    |-> HumidityErrorMF("negative_small", error),
     off             |-> HumidityErrorMF("zero", error),
     dehumidify_low  |-> HumidityErrorMF("positive_small", error),
     dehumidify_high |-> HumidityErrorMF("positive_large", error)]

\* the aggregated output membership at x: the max over the terms of the term's
\* membership function cut at its firing strength
Aggregate(cuts, table, x) ==
    LET cut == {Min2(cuts[l], table[l][x]) : l \in DOMAIN table}
    IN  CHOOSE m \in cut : \A y \in cut : y <= m

\* <<sum of x * mu(x), sum of mu(x)>> over the points lo..hi of the universe
RECURSIVE Moments(_, _, _, _)
Moments(cuts, table, lo, hi) ==
    IF lo > hi THEN <<0, 0>>
    ELSE IF lo = hi THEN LET mu == Aggregate(cuts, table, lo) IN <<lo * mu, mu>>
    ELSE LET mid == (lo + hi) \div 2
             left == Moments(cuts, table, lo, mid)
             right == Moments(cuts, table, mid + 1, hi)
         IN  <<left[1] + right[1], left[2] + right[2]>>

\* simulator.compute() and simulator.output[...]: centroid defuzzification of the
\* aggregated membership over the sampled universe; it raises when no rule fires
\* (the total area is zero)
Defuzzify(cuts, table) ==
    LET m == Moments(cuts, table, -100, 100)
    IN  IF m[2] = 0 THEN [raised |-> TRUE, output |-> Zero]
        ELSE [raised |-> FALSE, output |-> Frac(m[1], m[2])]

\* np.clip(output, -100, 100) of a fraction
ClipOutput(q) ==
    IF q[1] > 100 * q[2] THEN Whole(100)
    ELSE IF q[1] < -100 * q[2] THEN Whole(-100)
    ELSE q

\* simulator.compute() inside the try block: the library call either raises
\* (fails, or no rule fires) or yields the centroid
Inference(cuts, table, fails) ==
    IF fails THEN [raised |-> TRUE, output |-> Zero] ELSE Defuzzify(cuts, table)

\* the except branches: output = error * 5.0, output = error * 2.0
TempFallbackHumidityGain(error) == Whole(error * 2)
TempFallback(error) == Whole(error * 5)
HumidityFallback(error) == Whole(error * 2)

\* calculate_temperature_control for error = setpoint - current_value:
\* whether the inference raised, and the value returned
FuzzyTemperatureOutput(prev, raw_error, fails) ==
    LET error == Clip(raw_error, -10, 10)
        error_rate == Clip(raw_error - prev, -5, 5)
        r == Inference(TempCuts(error, error_rate), TempOutputTable, fails)
        output == IF r.raised THEN TempFallback(error) ELSE r.output
    IN  [raised |-> r.raised, out |-> ClipOutput(output)]

\* calculate_humidity_control
FuzzyHumidityOutput(raw_error, fails) ==
    LET error == Clip(raw_error, -20, 20)
        r == Inference(HumidityCuts(error), HumidityOutputTable, fails)
        output == IF r.raised THEN HumidityFallback(error) ELSE r.output
    IN  [raised |-> r.raised, out |-> ClipOutput(output)]

FuzzyIdle == UNCHANGED <<pidVars, onoffVars, thermalVars, sensorVars, configVars, loopVars>>

FuzzyCalculateTemperature ==
    /\ current_controller = "fuzzy"
    /\ \E in \in FuzzyTempInputs, fails \in BOOLEAN :
         LET error == in[1] - in[2]
             r == FuzzyTemperatureOutput(prev_temp_error, error, fails)
         IN  /\ ret' = r.out
             /\ raised' = r.raised
             /\ prev_temp_error' = error
             /\ err' = error
    /\ op' = "calculate_temperature_control"
    /\ UNCHANGED <<current_controller, prev_humidity_error>>
    /\ FuzzyIdle

FuzzyCalculateHumidity ==
    /\ current_controller = "fuzzy"
    /\ \E in \in FuzzyHumidityInputs, fails \in BOOLEAN :
         LET error == in[1] - in[2]
             r == FuzzyHumidityOutput(error, fails)
         IN  /\ ret' = r.out
             /\ raised' = r.raised
             /\ prev_humidity_error' = error
             /\ err' = error
    /\ op' = "calculate_humidity_control"
    /\ UNCHANGED <<current_controller, prev_temp_error>>
    /\ FuzzyIdle

FuzzyReset ==
    /\ current_controller = "fuzzy"
    /\ prev_temp_error' = 0
    /\ prev_humidity_error' = 0
    /\ op' = "reset"
    /\ UNCHANGED <<current_controller, err, ret, raised>>
    /\ FuzzyIdle

-----------------------------------------------------------------------------
(* ThermalModel *)

\* temperatures (degrees C) and humidities (percent) are integers in units of
\* 1/TempScale; sines are integers in units of 1/SinScale; angles are integers
\* in units of 1/SinScale radians; heat flows are integers in units of 1/100 W
TempScale == 100000
SinScale == 1000000
Pi == 3141593

\* building_params defaults and the model's fixed step
thermal_mass == 5000000
ua_envelope == 500
ua_infiltration == 200
volume == 3000
dt == 60
hvac_heating_capacity == 20000
hvac_cooling_capacity == 15000
max_history == 1440

\* n / d rounded to the nearest integer, d > 0
RoundDiv(n, d) == (2 * n + d) \div (2 * d)

\* <<quotient, remainder>> of r * b by c, for 0 <= r < c and b >= 0, without
\* forming the product
RECURSIVE MulQR(_, _, _)
MulQR(r, b, c) ==
    IF b = 0 THEN <<0, 0>>
    ELSE LET h == MulQR(r, b \div 2, c)
             t == 2 * h[2] + (b % 2) * r
         IN  <<2 * h[1] + t \div c, t % c>>

\* a * b / c for a, b >= 0
MulDiv(a, b, c) == (a \div c) * b + MulQR(a % c, b, c)[1]

\* a * b / SinScale for a, b >= 0, by parts (SinScale = SinRoot * SinRoot)
SinRoot == 1000
MulFix(a, b) ==
    LET a1 == a \div SinRoot
        a0 == a % SinRoot
        b1 == b \div SinRoot
        b0 == b % SinRoot
    IN  a1 * b1 + (a1 * b0 + a0 * b1) \div SinRoot + (a0 * b0) \div SinScale

\* the sine series x - x^3/3! + x^5/5! - ... from the term of order k on
RECURSIVE SinSeries(_, _, _)
SinSeries(term, x2, k) ==
    IF term = 0 \/ k > 13 THEN 0
    ELSE term - SinSeries(MulFix(term, x2) \div ((k + 1) * (k + 2)), x2, k + 2)

\* np.sin of an angle in [0, pi/2]
SinQuarter(x) == SinSeries(x, MulFix(x, x), 1)

\* np.sin(2 * pi * p / turn), for a whole number of quarter turns in turn
SinTurn(p, turn) ==
    LET q == p % turn
        half == turn \div 2
        quarter == turn \div 4
        Angle(m) == MulDiv(Pi, m, half)
    IN  IF q <= quarter THEN SinQuarter(Angle(q))
        ELSE IF q <= half THEN SinQuarter(Angle(half - q))
        ELSE IF q <= half + quarter THEN 0 - SinQuarter(Angle(q - half))
        ELSE 0 - SinQuarter(Angle(turn - q))

\* minutes since midnight: hour_of_day = (time % 86400) / 3600, times 60
MinuteOfDay(t) == (t % 86400) \div 60
\* minutes since the start of the year: day_of_year = (time % (365 * 86400)) / 86400
MinuteOfYear(t) == (t % (365 * 86400)) \div 60

\* np.sin(2 * np.pi * (hour_of_day - 6) / 24)
DailySin(t) == SinTurn(MinuteOfDay(t) - 6 * 60, 24 * 60)
\* np.sin(2 * np.pi * (day_of_year - 80) / 365)
SeasonalSin(t) == SinTurn(MinuteOfYear(t) - 80 * 1440, 365 * 1440)

\* _update_outdoor_conditions: the outdoor temperature and humidity at time t
OutdoorTemp(t) ==
    15 * TempScale + RoundDiv(8 * DailySin(t) + 10 * SeasonalSin(t), SinScale \div TempScale)

OutdoorHumidity(To) ==
    Clip(70 * TempScale - RoundDiv(To - 15 * TempScale, 2), 20 * TempScale, 90 * TempScale)

\* _calculate_solar_gains, in 1/100 W
SolarGains(t, solar_gains) ==
    IF 6 * 60 <= MinuteOfDay(t) /\ MinuteOfDay(t) <= 18 * 60
    THEN RoundDiv(solar_gains * DailySin(t), SinScale \div 100)
    ELSE 0

\* update: the loads in W for a temperature control output
HvacHeating(out) == (Max2(0, out) * hvac_heating_capacity) \div 100
HvacCoolingSigned(out) == ((0 - out) * hvac_cooling_capacity) \div 100
HvacCooling(out) == (Max2(0, 0 - out) * hvac_cooling_capacity) \div 100

\* thermal_ode over one step, per 1000 J/K: the coefficients of
\* dT_indoor * dt and dT_wall * dt
\* the shares of thermal_mass of the indoor node (0.7) and of the wall node
\* (0.3), in tenths
IndoorFraction == 7
WallFraction == 3
EnvCoef == ((ua_envelope + ua_infiltration) * dt) \div 1000
WallCoef == (WallFraction * (thermal_mass \div 1000) * dt) \div (10 * 3600)
IndoorMass == (IndoorFraction * (thermal_mass \div 1000)) \div 10
WallStep == 3600 \div dt

\* heat into the indoor node over one step from the envelope and infiltration
EnvelopeFlowReversed(To, Ti) == EnvCoef * (Ti - To)
EnvelopeFlow(To, Ti) == EnvCoef * (To - Ti)

\* odeint over [0, dt]: the system is linear with constant forcing over the
\* step, and its solution is the series sum_k (A dt)^k x / k! + ...; terms
\* beyond OdeOrder are below the resolution.  ti, tw: the previous term
\* (the state for k = 1); forcing: the constant heat input (k = 1 only)
OdeOrder == 4
RECURSIVE OdeSeries(_, _, _, _, _)
OdeSeries(ti, tw, To, forcing, k) ==
    IF k > OdeOrder THEN <<0, 0>>
    ELSE LET di == RoundDiv(EnvelopeFlow(To, ti) + forcing - WallCoef * (ti - tw),
                            IndoorMass * k)
             dw == RoundDiv(ti - tw, WallStep * k)
             rest == OdeSeries(di, dw, 0, 0, k + 1)
         IN  <<di + rest[1], dw + rest[2]>>

\* _solve_thermal_dynamics: the new <<indoor_temp, wall_temp>>
SolveThermalDynamics(Ti, Tw, To, t, p, heating, cooling) ==
    LET Q_internal == 100 * p.internal_gains
        Q_solar == SolarGains(t, p.solar_gains)
        Q_hvac == 90 * (heating - cooling)
        d == OdeSeries(Ti, Tw, To, dt * (Q_internal + Q_solar + Q_hvac), 1)
    IN  <<Ti + d[1], Tw + d[2]>>

\* _update_humidity.  Moisture flows are integers in units of
\* 1/(MoistureScale * TempScale) kg/h
MoistureScale == 500
moisture_generation == 2 * MoistureScale * TempScale

NoHumidityClip(h) == h
HumidityClip(h) == Clip(h, 20 * TempScale, 80 * TempScale)

UpdateHumidity(H, Ho, out) ==
    LET moisture_infiltration == (ua_infiltration * (Ho - H)) \div ((1000 * 100) \div MoistureScale)
        moisture_hvac == IF out > 0
                         THEN out * 5 * MoistureScale * (TempScale \div 100)
                         ELSE out * 3 * MoistureScale * (TempScale \div 100)
        total == moisture_generation + moisture_infiltration + moisture_hvac
        humidity_change == RoundDiv(total, (3600 \div dt) * (volume \div 1000) * MoistureScale)
    IN  HumidityClip(H + humidity_change)

\* _calculate_energy_consumption, in units of 1/EnergyScale W
\* (hvac_efficiency is 0.9: heating / 0.9 is 10 * heating / 9; the cooling COP is 2.5)
EnergyScale == 9
FanEnergy(heating, cooling) == IF heating > 0 \/ cooling > 0 THEN 500 ELSE 100
CoolingEnergyCredited(heating, cooling) ==
    10 * heating - (cooling * 2 * EnergyScale) \div 5 + EnergyScale * FanEnergy(heating, cooling)
EnergyConsumption(heating, cooling) ==
    10 * heating + (cooling * 2 * EnergyScale) \div 5 + EnergyScale * FanEnergy(heating, cooling)

\* _log_data
HistoryKeys == {"time", "indoor_temp", "wall_temp", "indoor_humidity", "outdoor_temp",
                "hvac_heating", "hvac_cooling", "energy_consumption"}
EmptyHistory == [k \in HistoryKeys |-> <<>>]

EvictNewest(s) == IF Len(s) > max_history THEN SubSeq(s, 1, Len(s) - 1) ELSE s
Evict(s) == IF Len(s) > max_history THEN Tail(s) ELSE s

LogData(h, rec) == [k \in HistoryKeys |-> Evict(Append(h[k], rec[k]))]

\* get_current_state
CurrentState ==
    [indoor_temperature |-> indoor_temp, wall_temperature |-> wall_temp,
     indoor_humidity |-> indoor_humidity, outdoor_temperature |-> outdoor_temp,
     outdoor_humidity |-> outdoor_humidity, time |-> time]

\* ThermalModel.__init__
FreshState ==
    [indoor_temperature |-> 22 * TempScale, wall_temperature |-> 20 * TempScale,
     indoor_humidity |-> 45 * TempScale, outdoor_temperature |-> 15 * TempScale,
     outdoor_humidity |-> 60 * TempScale, time |-> 0]

\* update: self.time += self.dt
AdvanceTimeStalled(t) == t
AdvanceTime(t) == t + dt

ThermalIdle == UNCHANGED <<controllerVars, sensorVars, configVars, loopVars>>

\* the ThermalModel object: its state attributes and its history
Model ==
    [indoor_temp |-> indoor_temp, wall_temp |-> wall_temp,
     indoor_humidity |-> indoor_humidity, outdoor_temp |-> outdoor_temp,
     outdoor_humidity |-> outdoor_humidity, time |-> time, history |-> history]

\* the object after __init__
FreshModel ==
    [indoor_temp |-> 22 * TempScale, wall_temp |-> 20 * TempScale,
     indoor_humidity |-> 45 * TempScale, outdoor_temp |-> 15 * TempScale,
     outdoor_humidity |-> 60 * TempScale, time |-> 0, history |-> EmptyHistory]

\* update(temp_control_output, humidity_control_output) on the object m with
\* building parameters p: the object after the call
Update(m, temp_control_output, humidity_control_output, p) ==
    LET To == OutdoorTemp(m.time)
        Ho == OutdoorHumidity(To)
        hvac_heating == HvacHeating(temp_control_output)
        hvac_cooling == HvacCooling(temp_control_output)
        T == SolveThermalDynamics(m.indoor_temp, m.wall_temp, To, m.time, p,
                                  hvac_heating, hvac_cooling)
        H == UpdateHumidity(m.indoor_humidity, Ho, humidity_control_output)
        rec == [time |-> m.time, indoor_temp |-> T[1], wall_temp |-> T[2],
                indoor_humidity |-> H, outdoor_temp |-> To,
                hvac_heating |-> hvac_heating, hvac_cooling |-> hvac_cooling,
                energy_consumption |-> EnergyConsumption(hvac_heating, hvac_cooling)]
    IN  [indoor_temp |-> T[1], wall_temp |-> T[2], indoor_humidity |-> H,
         outdoor_temp |-> To, outdoor_humidity |-> Ho,
         time |-> AdvanceTime(m.time), history |-> LogData(m.history, rec)]

\* reset() on the object m
ResetKeepsWall(m) ==
    [m EXCEPT !.indoor_temp = 22 * TempScale, !.indoor_humidity = 45 * TempScale,
              !.time = 0, !.history = EmptyHistory]
Reset(m) ==
    [m EXCEPT !.indoor_temp = 22 * TempScale, !.wall_temp = 20 * TempScale,
              !.indoor_humidity = 45 * TempScale, !.time = 0, !.history = EmptyHistory]

\* the object becomes m
SetModel(m) ==
    /\ indoor_temp' = m.indoor_temp
    /\ wall_temp' = m.wall_temp
    /\ indoor_humidity' = m.indoor_humidity
    /\ outdoor_temp' = m.outdoor_temp
    /\ outdoor_humidity' = m.outdoor_humidity
    /\ time' = m.time
    /\ history' = m.history

\* no companion model yet (no reset has been called)
NoCompanion == [active |-> FALSE]

\* update(temp_control_output, humidity_control_output); the companion, a model
\* constructed when reset was called, is given the same call
ThermalUpdate ==
    /\ time \div dt < (IF fresh.active THEN MaxResetUpdates ELSE RunLength(command, params))
    /\ SetModel(Update(Model, command[1], command[2], params))
    /\ fresh' = IF fresh.active
                THEN [active |-> TRUE, m |-> Update(fresh.m, command[1], command[2], params)]
                ELSE fresh
    /\ nupdates' = nupdates + 1
    /\ op' = "update"
    /\ UNCHANGED <<params, command>>
    /\ ThermalIdle

\* reset(); a companion model is constructed
ThermalReset ==
    /\ SetModel(Reset(Model))
    /\ fresh' = [active |-> TRUE, m |-> FreshModel]
    /\ nupdates' = 0
    /\ op' = "reset"
    /\ UNCHANGED <<params, command>>
    /\ ThermalIdle

-----------------------------------------------------------------------------
(* SensorManager *)

\* self.sensors, in the order of the dict
SensorOrder == <<"temp_zone1", "temp_zone2", "temp_outdoor", "humidity_zone1",
                 "humidity_zone2", "pressure", "co2_zone1">>
SensorIds == {SensorOrder[i] : i \in 1..Len(SensorOrder)}

SensorType(id) ==
    CASE id \in {"temp_zone1", "temp_zone2", "temp_outdoor"} -> "temperature"
      [] id \in {"humidity_zone1", "humidity_zone2"} -> "humidity"
      [] id = "pressure" -> "pressure"
      [] id = "co2_zone1" -> "co2"

\* 'outdoor' in sensor_id
IsOutdoor(id) == id = "temp_outdoor"

\* base_temp, base_humidity, base_pressure (rounded), base_co2
BaseValue(type) ==
    CASE type = "temperature" -> 22
      [] type = "humidity" -> 45
      [] type = "pressure" -> 1013
      [] type = "co2" -> 400

max_history_length == 100

\* float('nan'), a value no ok reading has
NaN == -999999

\* _read_sensor: the SensorReading a sensor delivers at clock reading t.  The
\* value of a noisy sensor is its base value or one above (the random noise),
\* and the random fault gives status 'fault' and value NaN
Draws == {[fault |-> TRUE, noise |-> 0], [fault |-> FALSE, noise |-> 0],
          [fault |-> FALSE, noise |-> 1]}
QuietDraw == [fault |-> FALSE, noise |-> 0]
ReadSensor(id, t, draw) ==
    IF draw.fault
    THEN [timestamp |-> t, value |-> NaN, status |-> "fault"]
    ELSE [timestamp |-> t, value |-> BaseValue(SensorType(id)) + draw.noise, status |-> "ok"]

\* _store_reading
StoreNewestDropped(h, reading) ==
    IF Len(h) + 1 > max_history_length THEN h ELSE Append(h, reading)
StoreReading(h, reading) ==
    LET a == Append(h, reading)
    IN  IF Len(a) > max_history_length THEN Tail(a) ELSE a

\* the sum of the values of a set of sensors' latest readings
RECURSIVE SumLatest(_, _)
SumLatest(h, ids) ==
    IF ids = {} THEN 0
    ELSE LET id == CHOOSE x \in ids : TRUE
         IN  h[id][Len(h[id])].value + SumLatest(h, ids \ {id})

\* the latest reading of the sensor is usable
LatestAny(h, id) == Len(h[id]) > 0
LatestValid(h, id) ==
    /\ Len(h[id]) > 0
    /\ h[id][Len(h[id])].status = "ok"
    /\ h[id][Len(h[id])].value # NaN

\* _get_average_reading
AverageReading(h, type) ==
    LET valid == {id \in SensorIds :
                     SensorType(id) = type /\ ~IsOutdoor(id) /\ LatestValid(h, id)}
    IN  IF valid = {} THEN Zero ELSE Frac(SumLatest(h, valid), Cardinality(valid))

\* _get_sensor_reading
SensorValue(h, id) ==
    IF LatestValid(h, id) THEN Whole(h[id][Len(h[id])].value) ELSE Zero

\* detect_sensor_faults: the entries one sensor adds to faulty_sensors
LastFive(s) == SubSeq(s, Len(s) - 4, Len(s))
FaultCount(recent) == Cardinality({i \in 1..Len(recent) : recent[i].status # "ok"})
OkValues(recent) == {recent[i].value : i \in {j \in 1..Len(recent) : recent[j].status = "ok"}}
OkCount(recent) == Cardinality({i \in 1..Len(recent) : recent[i].status = "ok"})

ManyFaultsAllFive(recent) == FaultCount(recent) >= 5
ManyFaultsFromTwo(recent) == FaultCount(recent) >= 2
ManyFaults(recent) == FaultCount(recent) >= 3
StuckDistinct(recent) == OkCount(recent) >= 3 /\ Cardinality(OkValues(recent)) > 1
Stuck(recent) == OkCount(recent) >= 3 /\ Cardinality(OkValues(recent)) = 1

FaultEntries(id, s) ==
    IF Len(s) >= 5
    THEN (IF ManyFaults(LastFive(s)) THEN <<id>> ELSE <<>>)
         \o (IF Stuck(LastFive(s)) THEN <<id>> ELSE <<>>)
    ELSE <<>>

RECURSIVE DetectFrom(_, _)
DetectFrom(h, i) ==
    IF i > Len(SensorOrder) THEN <<>>
    ELSE FaultEntries(SensorOrder[i], h[SensorOrder[i]]) \o DetectFrom(h, i + 1)

SensorIdle == UNCHANGED <<controllerVars, thermalVars, configVars, loopVars>>

\* the draws of all sensors in one read_all_sensors call: d for the sensors in n
AllDraws(n, d) == [id \in SensorIds |-> IF id \in n THEN d[id] ELSE QuietDraw]

\* read_all_sensors: every sensor is read at clock reading t and its reading stored
ReadAndStore(h, t, draws) ==
    [id \in SensorIds |-> StoreReading(h[id], ReadSensor(id, t, draws[id]))]

\* read_all_sensors: the dictionary returned
Readings(h) ==
    [temperature |-> AverageReading(h, "temperature"),
     humidity |-> AverageReading(h, "humidity"),
     pressure |-> AverageReading(h, "pressure"),
     co2 |-> AverageReading(h, "co2"),
     outdoor_temp |-> SensorValue(h, "temp_outdoor")]

\* read_all_sensors()
ReadAllSensors ==
    /\ nreads < ReadLimit(noisy)
    /\ \E d \in [noisy -> Draws] :
         LET h == ReadAndStore(sensor_history, nreads + 1, AllDraws(noisy, d))
         IN  /\ sensor_history' = h
             /\ sensor_ret' = Readings(h)
    /\ nreads' = nreads + 1
    /\ op' = "read_all_sensors"
    /\ UNCHANGED noisy
    /\ SensorIdle

\* detect_sensor_faults()
DetectSensorFaults ==
    /\ sensor_ret' = DetectFrom(sensor_history, 1)
    /\ op' = "detect_sensor_faults"
    /\ UNCHANGED <<sensor_history, nreads, noisy>>
    /\ SensorIdle

-----------------------------------------------------------------------------
(* Config *)

\* the HVACConfig defaults of the fields the Config operations check; the PID
\* gains in units of 1/GainScale
DefaultConfig ==
    [temperature_setpoint |-> 22, humidity_setpoint |-> 45,
     pid_kp |-> 40, pid_ki |-> 2, pid_kd |-> 1,
     min_temperature |-> 18, max_temperature |-> 28,
     min_humidity |-> 30, max_humidity |-> 70]

\* values handed to the two setpoint setters: inside, on and outside the limits
TemperatureSetpoints == {17, 18, 24, 28, 29}
HumiditySetpoints == {29, 30, 50, 70, 71}

\* keyword arguments handed to update_config
ConfigUpdates ==
    { [temperature_setpoint |-> 24],
      [temperature_setpoint |-> 40],
      [humidity_setpoint |-> 10],
      [min_temperature |-> 25],
      [pid_kp |-> -20],
      [temperature_setpoint |-> 20, humidity_setpoint |-> 50],
      [unknown_parameter |-> 1] }

\* arguments handed to update_pid_parameters: an argument left out is None
PidGainValues == {-20, 0, 60}
PidParameterUpdates == UNION { [names -> PidGainValues] : names \in SUBSET {"kp", "ki", "kd"} }

\* validate_config, without the control interval
ConfigValid(c) ==
    /\ c.min_temperature <= c.temperature_setpoint
    /\ c.temperature_setpoint <= c.max_temperature
    /\ c.min_humidity <= c.humidity_setpoint
    /\ c.humidity_setpoint <= c.max_humidity
    /\ c.pid_kp >= 0 /\ c.pid_ki >= 0 /\ c.pid_kd >= 0

\* update_config: setattr for every key the HVACConfig has
UpdateConfigFields(c, kwargs) ==
    [key \in DOMAIN c |-> IF key \in DOMAIN kwargs THEN kwargs[key] ELSE c[key]]

\* update_pid_parameters: an argument is assigned when it is given and not negative
UpdatePidField(old, args, name) ==
    IF name \in DOMAIN args /\ args[name] >= 0 THEN args[name] ELSE old

ConfigIdle == UNCHANGED <<controllerVars, thermalVars, sensorVars, loopVars>>

SetTemperatureSetpoint ==
    /\ \E value \in TemperatureSetpoints :
         IF config.min_temperature <= value /\ value <= config.max_temperature
         THEN /\ config' = [config EXCEPT !.temperature_setpoint = value]
              /\ config_file' = config'
              /\ config_raised' = FALSE
         ELSE /\ config_raised' = TRUE
              /\ UNCHANGED <<config, config_file>>
    /\ op' = "temperature_setpoint"
    /\ ConfigIdle

SetHumiditySetpoint ==
    /\ \E value \in HumiditySetpoints :
         IF config.min_humidity <= value /\ value <= config.max_humidity
         THEN /\ config' = [config EXCEPT !.humidity_setpoint = value]
              /\ config_file' = config'
              /\ config_raised' = FALSE
         ELSE /\ config_raised' = TRUE
              /\ UNCHANGED <<config, config_file>>
    /\ op' = "humidity_setpoint"
    /\ ConfigIdle

UpdateConfig ==
    /\ \E kwargs \in ConfigUpdates :
         config' = UpdateConfigFields(config, kwargs)
    /\ config_file' = config'
    /\ config_raised' = FALSE
    /\ op' = "update_config"
    /\ ConfigIdle

UpdatePidParameters ==
    /\ \E args \in PidParameterUpdates :
         config' = [config EXCEPT !.pid_kp = UpdatePidField(@, args, "kp"),
                                  !.pid_ki = UpdatePidField(@, args, "ki"),
                                  !.pid_kd = UpdatePidField(@, args, "kd")]
    /\ config_file' = config'
    /\ config_raised' = FALSE
    /\ op' = "update_pid_parameters"
    /\ ConfigIdle

ResetToDefaults ==
    /\ config' = DefaultConfig
    /\ config_file' = config'
    /\ config_raised' = FALSE
    /\ op' = "reset_to_defaults"
    /\ ConfigIdle

-----------------------------------------------------------------------------
(* HVACControlSystem.control_loop *)

\* at most MaxCycles control cycles in one run
MaxCycles == 2

\* the sensors that fault in the runs of the control loop, and their draws: a
\* reading is faulty or has the base value
LoopNoisy == {"temp_zone1", "temp_zone2"}
LoopDraws == {d \in Draws : d.noise = 0}

\* a measurement as the integer the controller computes its error from; the
\* averages of the loop's readings are whole numbers
Measured(q) == q[1] \div q[2]

\* no second system is run
NoTwin == [active |-> FALSE]

\* the sensor manager, the On-Off controller and the thermal model of one system
Run == [sensor_history |-> sensor_history, temp_state |-> temp_state,
        humidity_state |-> humidity_state, model |-> Model]

\* one control_loop() call on the components run, at clock reading t with the
\* sensor draws given: the components afterwards, the sensor data read and the
\* control outputs computed
Cycle(run, t, draws) ==
    LET h == ReadAndStore(run.sensor_history, t, draws)
        sensor_data == Readings(h)
        current_temp == Measured(sensor_data.temperature)
        current_humidity == Measured(sensor_data.humidity)
        temp == TemperatureControl(run.temp_state, config.temperature_setpoint - current_temp)
        humidity == HumidityControl(run.humidity_state, config.humidity_setpoint - current_humidity)
        temp_output == temp.out[1]
        humidity_output == humidity.out[1]
    IN  [run |-> [sensor_history |-> h, temp_state |-> temp.mode,
                  humidity_state |-> humidity.mode,
                  model |-> Update(run.model, temp_output, humidity_output, params)],
         sensor_data |-> sensor_data,
         humidity_error |-> config.humidity_setpoint - current_humidity,
         outputs |-> <<temp_output, humidity_output>>]

\* a second system whose ThermalModel starts from other indoor conditions
TwinStart(start) ==
    [active |-> TRUE,
     run |-> [sensor_history |-> [id \in SensorIds |-> <<>>], temp_state |-> "off",
              humidity_state |-> "off",
              model |-> [FreshModel EXCEPT !.indoor_temp = start[1] * TempScale,
                                           !.indoor_humidity = start[2] * TempScale]],
     sensor_data |-> <<>>,
     outputs |-> <<0, 0>>]

\* control_loop(), on the system and on its twin
ControlLoop ==
    /\ current_controller = "onoff"
    /\ twin.active
    /\ nreads < MaxCycles
    /\ \E d \in [LoopNoisy -> LoopDraws] :
         LET a == Cycle(Run, nreads + 1, AllDraws(LoopNoisy, d))
             b == Cycle(twin.run, nreads + 1, AllDraws(LoopNoisy, d))
         IN  /\ sensor_history' = a.run.sensor_history
             /\ sensor_ret' = a.sensor_data
             /\ temp_state' = a.run.temp_state
             /\ humidity_state' = a.run.humidity_state
             /\ SetModel(a.run.model)
             /\ command' = a.outputs
             /\ err' = a.humidity_error
             /\ ret' = Whole(a.outputs[2])
             /\ twin' = [active |-> TRUE, run |-> b.run, sensor_data |-> b.sensor_data,
                         outputs |-> b.outputs]
    /\ pre_mode' = humidity_state
    /\ nreads' = nreads + 1
    /\ nupdates' = nupdates + 1
    /\ op' = "control_loop"
    /\ UNCHANGED <<current_controller, deadband, pidVars, fuzzyVars, params, fresh, noisy,
                   configVars>>

-----------------------------------------------------------------------------
(* Specification *)

\* the state of the three controller objects after construction; the calls of
\* one run go to one of them
InitPid(gains) ==
    /\ kp = gains[1] /\ ki = gains[2] /\ kd = gains[3]
    /\ pid_temp_state = PidInitState
    /\ pid_humidity_state = PidInitState
    /\ ncalls = 0
    /\ now = 0
    /\ pre_pid = PidInitState

InitOnOff(d) ==
    /\ deadband = d
    /\ temp_state = "off"
    /\ humidity_state = "off"
    /\ pre_mode = "off"

\* ThermalModel.__init__, and the attributes a caller assigns before the first update
InitThermal(start, g, c) ==
    /\ indoor_temp = start[1] * TempScale
    /\ wall_temp = 20 * TempScale
    /\ indoor_humidity = start[2] * TempScale
    /\ outdoor_temp = 15 * TempScale
    /\ outdoor_humidity = 60 * TempScale
    /\ time = 0
    /\ history = EmptyHistory
    /\ params = g
    /\ command = c
    /\ nupdates = 0
    /\ fresh = NoCompanion

\* SensorManager.__init__
InitSensors(n) ==
    /\ sensor_history = [id \in SensorIds |-> <<>>]
    /\ sensor_ret = <<>>
    /\ nreads = 0
    /\ noisy = n

\* Config.__init__ with no configuration file present: the defaults are saved
InitConfig ==
    /\ config = DefaultConfig
    /\ config_file = DefaultConfig
    /\ config_raised = FALSE

InitFuzzy ==
    /\ prev_temp_error = 0
    /\ prev_humidity_error = 0
    /\ raised = FALSE

Init ==
    /\ \/ current_controller = "pid" /\ (\E g \in Gains : InitPid(g)) /\ InitOnOff(1)
       \/ current_controller = "onoff" /\ InitPid(TestGains) /\ (\E d \in Deadbands : InitOnOff(d))
       \/ current_controller = "fuzzy" /\ InitPid(TestGains) /\ InitOnOff(1)
    /\ InitFuzzy
    /\ InitThermal(FreshStart, DefaultGains, <<0, 0>>)
    /\ InitSensors({})
    /\ InitConfig
    /\ twin = NoTwin
    /\ op = "init"
    /\ err = 0
    /\ ret = Zero

Next ==
    \/ PidCalculateTemperature
    \/ PidCalculateHumidity
    \/ PidReset
    \/ PidTuneParameters
    \/ OnOffCalculateTemperature
    \/ OnOffCalculateHumidity
    \/ OnOffReset
    \/ OnOffSetDeadband
    \/ FuzzyCalculateTemperature
    \/ FuzzyCalculateHumidity
    \/ FuzzyReset

Spec == Init /\ [][Next]_vars

\* the building simulation alone: one ThermalModel driven with constant control
\* outputs, the controllers untouched
InitThermalModel ==
    /\ current_controller = "pid" /\ InitPid(TestGains) /\ InitOnOff(1) /\ InitFuzzy
    /\ \E start \in Starts, g \in GainSets, c \in Commands : InitThermal(start, g, c)
    /\ InitSensors({})
    /\ InitConfig
    /\ twin = NoTwin
    /\ op = "init"
    /\ err = 0
    /\ ret = Zero

NextThermalModel ==
    \/ ThermalUpdate
    \/ ThermalReset

SpecThermalModel == InitThermalModel /\ [][NextThermalModel]_vars

\* the sensor manager alone
InitSensorManager ==
    /\ current_controller = "pid" /\ InitPid(TestGains) /\ InitOnOff(1) /\ InitFuzzy
    /\ InitThermal(FreshStart, DefaultGains, <<0, 0>>)
    /\ \E n \in NoisySets : InitSensors(n)
    /\ InitConfig
    /\ twin = NoTwin
    /\ op = "init"
    /\ err = 0
    /\ ret = Zero

NextSensorManager ==
    \/ ReadAllSensors
    \/ DetectSensorFaults

SpecSensorManager == InitSensorManager /\ [][NextSensorManager]_vars

\* the configuration manager alone
InitConfigManager ==
    /\ current_controller = "pid" /\ InitPid(TestGains) /\ InitOnOff(1) /\ InitFuzzy
    /\ InitThermal(FreshStart, DefaultGains, <<0, 0>>)
    /\ InitSensors({})
    /\ InitConfig
    /\ twin = NoTwin
    /\ op = "init"
    /\ err = 0
    /\ ret = Zero

NextConfigManager ==
    \/ SetTemperatureSetpoint
    \/ SetHumiditySetpoint
    \/ UpdateConfig
    \/ UpdatePidParameters
    \/ ResetToDefaults

SpecConfigManager == InitConfigManager /\ [][NextConfigManager]_vars

\* the whole system after switch_controller('onoff'), run next to a twin that
\* differs in the state of its ThermalModel only
InitControlLoop ==
    /\ current_controller = "onoff" /\ InitPid(TestGains) /\ InitOnOff(1) /\ InitFuzzy
    /\ InitThermal(FreshStart, DefaultGains, <<0, 0>>)
    /\ InitSensors(LoopNoisy)
    /\ InitConfig
    /\ \E start \in Starts \ {FreshStart} : twin = TwinStart(start)
    /\ op = "init"
    /\ err = 0
    /\ ret = Zero

NextControlLoop ==
    \/ ControlLoop
    \/ SetTemperatureSetpoint

SpecControlLoop == InitControlLoop /\ [][NextControlLoop]_vars

-----------------------------------------------------------------------------
(* Properties *)

CalcOps == {"calculate_temperature_control", "calculate_humidity_control"}
PidCalled == current_controller = "pid" /\ op \in CalcOps
OnOffCalled == current_controller = "onoff" /\ op \in CalcOps
FuzzyCalled == current_controller = "fuzzy" /\ op \in CalcOps

\* the PID channel the last call worked on, as the call left it
PidChannel ==
    IF op = "calculate_temperature_control" THEN pid_temp_state ELSE pid_humidity_state
\* the On-Off channel the last call worked on: its mode and its deadband
OnOffMode ==
    IF op = "calculate_temperature_control" THEN temp_state ELSE humidity_state
OnOffBand ==
    IF op = "calculate_temperature_control" THEN deadband ELSE deadband * 2

\* C1: every output returned by a calculate_temperature_control or
\* calculate_humidity_control call of any of the three controllers lies in
\* [-100, 100].
C1_OutputInRange ==
    op \in CalcOps => Within(ret, -100, 100)

\* a PID computation whose output is held at the upper limit
C1_Witness ==
    /\ PidCalled
    /\ pre_pid.last_time # NoTime /\ now > pre_pid.last_time
    /\ err = 50
    /\ ret = Whole(OutMax)

C3_FirstTwoCallsSigned ==
    [][(/\ PidCalled /\ ncalls = 1 /\ <<kp, ki, kd>> = TestGains /\ err > 0
        /\ ncalls' = 2 /\ op' = op /\ err' < 0)
       => (Positive(ret) /\ Negative(ret'))]_vars

\* C4: a call to a seeded PID channel with dt <= 0 returns 0 and leaves the
\* channel's last_error, integral and last_time as they were.
C4_StaleClockIgnored ==
    (PidCalled /\ pre_pid.last_time # NoTime /\ now <= pre_pid.last_time) =>
        /\ ret = Zero
        /\ PidChannel = pre_pid

C4_Witness ==
    /\ PidCalled /\ pre_pid.last_time # NoTime
    /\ now < pre_pid.last_time
    /\ err # pre_pid.last_error
    /\ PidChannel = pre_pid

\* C5: whenever ki is non-zero, the integral accumulator of each PID channel lies
\* within [output_limits.min / ki, output_limits.max / ki].
C5_IntegralWithinLimits ==
    (current_controller = "pid" /\ ki # 0) =>
        \A st \in {pid_temp_state, pid_humidity_state} :
            /\ OutMin * GainScale <= st.integral * ki
            /\ st.integral * ki <= OutMax * GainScale

\* C6: from Off with deadband d > 0, error > d gives heating and +100, error < -d
\* gives cooling and -100, and an error in [-d, d] leaves the mode Off and gives 0.
C6_OffTransitions ==
    (/\ current_controller = "onoff" /\ op = "calculate_temperature_control"
     /\ pre_mode = "off" /\ deadband > 0) =>
        /\ err > deadband => (temp_state = "heating" /\ ret = Whole(100))
        /\ err < -deadband => (temp_state = "cooling" /\ ret = Whole(-100))
        /\ (-deadband <= err /\ err <= deadband) => (temp_state = "off" /\ ret = Zero)

C6_Witness ==
    /\ current_controller = "onoff" /\ op = "calculate_temperature_control"
    /\ pre_mode = "off" /\ deadband > 0
    /\ err = -deadband
    /\ temp_state = "off"

\* C7: from heating a call with error < -d moves directly to cooling and returns
\* -100; from cooling a call with error > d moves directly to heating and returns
\* +100 (d > 0).
C7_DirectReversal ==
    (/\ current_controller = "onoff" /\ op = "calculate_temperature_control"
     /\ deadband > 0) =>
        /\ (pre_mode = "heating" /\ err < -deadband) =>
               (temp_state = "cooling" /\ ret = Whole(-100))
        /\ (pre_mode = "cooling" /\ err > deadband) =>
               (temp_state = "heating" /\ ret = Whole(100))

\* C8, as claimed: while heating or cooling, a call with the measurement within
\* d/2 of the setpoint moves the mode to Off and returns 0.
C8_OffWithinHalfBand ==
    (/\ current_controller = "onoff" /\ op = "calculate_temperature_control"
     /\ pre_mode \in {"heating", "cooling"}
     /\ deadband > 0 /\ 2 * Abs(err) <= deadband) =>
        (temp_state = "off" /\ ret = Zero)

\* C8, amended: while heating (cooling), a call whose measurement has passed the
\* setpoint by more than d/2, error < -d/2 (error > d/2), moves the mode to Off
\* and returns 0; a call with the measurement within d/2 of the setpoint keeps
\* the mode and returns +100 (-100).
C8_OffPastHalfBand ==
    (current_controller = "onoff" /\ op = "calculate_temperature_control") =>
        /\ (pre_mode = "heating" /\ 2 * err < -deadband) =>
               (temp_state = "off" /\ ret = Zero)
        /\ (pre_mode = "cooling" /\ 2 * err > deadband) =>
               (temp_state = "off" /\ ret = Zero)
        /\ (pre_mode = "heating" /\ 2 * Abs(err) <= deadband) =>
               (temp_state = "heating" /\ ret = Whole(100))
        /\ (pre_mode = "cooling" /\ 2 * Abs(err) <= deadband) =>
               (temp_state = "cooling" /\ ret = Whole(-100))

\* heating is switched off by an error between -d and -d/2
C8_Witness ==
    /\ current_controller = "onoff" /\ op = "calculate_temperature_control"
    /\ pre_mode = "heating"
    /\ 2 * err < -deadband /\ err >= -deadband
    /\ temp_state = "off" /\ ret = Zero

\* C9: a call to an On-Off channel in mode Off with |error| < d/2, d > 0 the
\* channel's deadband, leaves the mode Off and returns 0.
C9_OffStaysOff ==
    (OnOffCalled /\ pre_mode = "off" /\ OnOffBand > 0 /\ 2 * Abs(err) < OnOffBand) =>
        (OnOffMode = "off" /\ ret = Zero)

C9_Witness ==
    /\ OnOffCalled /\ pre_mode = "off"
    /\ op = "calculate_temperature_control"
    /\ err > 0 /\ 2 * err < OnOffBand
    /\ OnOffMode = "off"

\* C10: the fuzzy controller returns a positive output when setpoint > measurement
\* and a negative output when setpoint < measurement.
C10_FuzzySign ==
    FuzzyCalled =>
        /\ err > 0 => Positive(ret)
        /\ err < 0 => Negative(ret)

\* C11: when the fuzzy inference raises, the call still returns: the temperature
\* call returns clip(5 * clip(error, -10, 10), -100, 100) and the humidity call
\* returns clip(2 * clip(error, -20, 20), -100, 100).
C11_FallbackOutput ==
    (FuzzyCalled /\ raised) =>
        IF op = "calculate_temperature_control"
        THEN ret = Whole(Clip(5 * Clip(err, -10, 10), -100, 100))
        ELSE ret = Whole(Clip(2 * Clip(err, -20, 20), -100, 100))

\* a failed temperature inference with an error beyond the universe
C11_Witness ==
    /\ FuzzyCalled /\ raised
    /\ op = "calculate_temperature_control"
    /\ err = 12
    /\ ret = Whole(50)

-----------------------------------------------------------------------------
(* Properties of the ThermalModel *)

\* the last history record
LastOf(k) == history[k][Len(history[k])]
\* a step of the model that is an update call
UpdateStep == nupdates' = nupdates + 1
NoGains == params.internal_gains = 0 /\ params.solar_gains = 0
\* x lies between a and b, ends included
Between(x, a, b) == (a <= x /\ x <= b) \/ (b <= x /\ x <= a)

\* C12: after every update call indoor_humidity lies in [20, 80] and
\* outdoor_humidity lies in [20, 90].
C12_HumidityInRange ==
    op = "update" =>
        /\ 20 * TempScale <= indoor_humidity /\ indoor_humidity <= 80 * TempScale
        /\ 20 * TempScale <= outdoor_humidity /\ outdoor_humidity <= 90 * TempScale

\* humidifying at full output has driven the indoor humidity onto its upper limit
C12_Witness ==
    /\ op = "update"
    /\ command[2] = 100
    /\ indoor_humidity = 80 * TempScale
    /\ history["indoor_humidity"][1] < 80 * TempScale

\* C13: the energy consumption recorded by an update call is >= 0; it is the
\* idle fan baseline of 100 W when the temperature output is 0, and strictly
\* more than that baseline when the heating or the cooling load is not zero.
C13_EnergyConsumption ==
    op = "update" =>
        /\ LastOf("energy_consumption") >= 0
        /\ command[1] = 0 => LastOf("energy_consumption") = 100 * EnergyScale
        /\ (LastOf("hvac_heating") # 0 \/ LastOf("hvac_cooling") # 0)
              => LastOf("energy_consumption") > 100 * EnergyScale

\* full cooling: 15000 W / 2.5 plus the 500 W fan
C13_Witness ==
    /\ op = "update"
    /\ command[1] = -100
    /\ LastOf("hvac_cooling") = 15000
    /\ LastOf("energy_consumption") = 6500 * EnergyScale

\* C14: after n update calls since construction or the last reset all eight
\* history series have length min(n, 1440); an update on a full history
\* removes exactly the oldest record and appends the newest.
C14_BoundedHistory ==
    [][/\ \A k \in HistoryKeys : Len(history'[k]) = Min2(nupdates', 1440)
       /\ UpdateStep =>
             \A k \in HistoryKeys :
                 IF Len(history[k]) = 1440
                 THEN SubSeq(history'[k], 1, 1439) = Tail(history[k])
                 ELSE SubSeq(history'[k], 1, Len(history[k])) = history[k]]_vars

\* more than 1440 updates: the series are full and start at the first record
\* that was not evicted
C14_Witness ==
    /\ nupdates > 1440
    /\ \A k \in HistoryKeys : Len(history[k]) = 1440
    /\ history["time"][1] = (nupdates - 1440) * 60
    /\ LastOf("time") = (nupdates - 1) * 60

\* C15: each update call advances the time by exactly 60 s and appends exactly
\* one history record stamped with the time at which the step started; the
\* time increases strictly and consecutive history times differ by 60 s.
C15_TimeAdvance ==
    [][UpdateStep =>
         /\ time' = time + 60
         /\ Len(history'["time"]) = Min2(Len(history["time"]) + 1, max_history)
         /\ history'["time"][Len(history'["time"])] = time
         /\ \A i \in 1..(Len(history'["time"]) - 1) :
                history'["time"][i + 1] - history'["time"][i] = 60]_vars

\* two updates from construction
C15_Witness ==
    /\ op = "update"
    /\ nupdates = 2
    /\ time = 120
    /\ history["time"] = <<0, 60>>

\* C16: after reset() the state returned by get_current_state() is that of a
\* freshly constructed model and every history series is empty.
C16_ResetRestoresFreshState ==
    op = "reset" => CurrentState = FreshState /\ history = EmptyHistory

\* C17: with control outputs 0 and no internal and solar gains every update
\* moves indoor_temp toward the outdoor temperature of the step and not past it.
C17_TowardOutdoor ==
    [][(UpdateStep /\ command = <<0, 0>> /\ NoGains)
         => Between(indoor_temp', indoor_temp, outdoor_temp')]_vars

\* C17 as amended: the same, for the updates that start with the wall
\* temperature between the indoor temperature and the outdoor temperature of
\* the step.
C17_TowardOutdoorWallBetween ==
    [][(/\ UpdateStep /\ command = <<0, 0>> /\ NoGains
        /\ Between(wall_temp, indoor_temp, outdoor_temp'))
         => Between(indoor_temp', indoor_temp, outdoor_temp')]_vars

\* the first update of a fresh model (indoor 22, wall 20, outdoor below 0)
\* has cooled the room
C17_Witness ==
    /\ nupdates = 1
    /\ command = <<0, 0>> /\ NoGains
    /\ outdoor_temp < 0
    /\ 21 * TempScale < indoor_temp /\ indoor_temp < 22 * TempScale

-----------------------------------------------------------------------------
(* Properties of the SensorManager *)

Latest(id) == sensor_history[id][Len(sensor_history[id])]
ReadStep == nreads' = nreads + 1
\* the ids in a returned list
Listed(list) == {list[i] : i \in 1..Len(list)}
\* the number of fault entries among the five most recent of a sensor
RecentFaults(id) ==
    Cardinality({i \in (Len(sensor_history[id]) - 4)..Len(sensor_history[id]) :
                    sensor_history[id][i].status = "fault"})

\* C18: after n read_all_sensors calls every sensor's history has length
\* min(n, 100); a call appends exactly one reading per sensor and, on a full
\* history, evicts only the oldest entry.
C18_BoundedSensorHistory ==
    [][/\ \A id \in SensorIds : Len(sensor_history'[id]) = Min2(nreads', 100)
       /\ ReadStep =>
             \A id \in SensorIds :
                 /\ sensor_history'[id][Len(sensor_history'[id])].timestamp = nreads'
                 /\ IF Len(sensor_history[id]) = 100
                    THEN SubSeq(sensor_history'[id], 1, 99) = Tail(sensor_history[id])
                    ELSE SubSeq(sensor_history'[id], 1, Len(sensor_history[id]))
                           = sensor_history[id]]_vars

\* more than 100 calls: the histories are full and start at the oldest reading kept
C18_Witness ==
    /\ nreads > 100
    /\ \A id \in SensorIds :
          /\ Len(sensor_history[id]) = 100
          /\ sensor_history[id][1].timestamp = nreads - 99
          /\ Latest(id).timestamp = nreads

\* the mean of the latest values of those of two sensors whose latest reading
\* has status ok, 0 when there is none
MeanOfOk(a, b) ==
    IF Latest(a).status = "ok" /\ Latest(b).status = "ok"
    THEN Frac(Latest(a).value + Latest(b).value, 2)
    ELSE IF Latest(a).status = "ok" THEN Whole(Latest(a).value)
    ELSE IF Latest(b).status = "ok" THEN Whole(Latest(b).value)
    ELSE Zero

\* C19: the aggregate read_all_sensors returns for a type is the mean of the
\* latest readings of the type's non-outdoor sensors with status ok; a faulted
\* reading does not contribute, and the aggregate is 0 when no reading is valid.
C19_AggregateOfValid ==
    op = "read_all_sensors" =>
        /\ sensor_ret.temperature = MeanOfOk("temp_zone1", "temp_zone2")
        /\ sensor_ret.humidity = MeanOfOk("humidity_zone1", "humidity_zone2")
        /\ sensor_ret.pressure = MeanOfOk("pressure", "pressure")
        /\ sensor_ret.co2 = MeanOfOk("co2_zone1", "co2_zone1")

\* one of the two zone temperature sensors faulted: the aggregate is the other's value
C19_Witness ==
    /\ op = "read_all_sensors"
    /\ Latest("temp_zone1").status = "fault"
    /\ Latest("temp_zone2").status = "ok"
    /\ Latest("temp_zone2").value = 23
    /\ sensor_ret.temperature = Whole(23)

\* C20: a sensor with at least 3 fault entries among its 5 most recent history
\* entries (in particular with 5) is in the list detect_sensor_faults returns.
C20_FaultsFlagged ==
    op = "detect_sensor_faults" =>
        \A id \in SensorIds :
            (Len(sensor_history[id]) >= 5 /\ RecentFaults(id) >= 3)
                => id \in Listed(sensor_ret)

\* five faults in a row
C20_Witness ==
    /\ op = "detect_sensor_faults"
    /\ Len(sensor_history["temp_zone1"]) >= 5
    /\ RecentFaults("temp_zone1") = 5
    /\ "temp_zone1" \in Listed(sensor_ret)

\* every entry of the sensor's history is an ok reading with one and the same value
AllOkIdentical(id) ==
    \A i \in 1..Len(sensor_history[id]) :
        /\ sensor_history[id][i].status = "ok"
        /\ sensor_history[id][i].value = sensor_history[id][1].value

\* C21: a sensor fed n >= 3 ok readings with identical values and no fault
\* reading is in the list detect_sensor_faults returns, histories of 3 or 4
\* entries included.
C21_StuckFromThree ==
    op = "detect_sensor_faults" =>
        \A id \in SensorIds :
            (Len(sensor_history[id]) >= 3 /\ AllOkIdentical(id)) => id \in Listed(sensor_ret)

\* C21 as amended: such a sensor is listed once its history has 5 entries, and
\* no sensor with fewer than 5 entries is listed.
C21_StuckFromFive ==
    op = "detect_sensor_faults" =>
        \A id \in SensorIds :
            /\ (Len(sensor_history[id]) >= 5 /\ AllOkIdentical(id)) => id \in Listed(sensor_ret)
            /\ Len(sensor_history[id]) < 5 => id \notin Listed(sensor_ret)

\* a noisy sensor that happened to deliver the same value five times
C21_Witness ==
    /\ op = "detect_sensor_faults"
    /\ "humidity_zone2" \in noisy
    /\ Len(sensor_history["humidity_zone2"]) = 5
    /\ AllOkIdentical("humidity_zone2")
    /\ sensor_history["humidity_zone2"][1].value = 46
    /\ "humidity_zone2" \in Listed(sensor_ret)

\* C30: detect_sensor_faults never lists a sensor id more than once.
C30_NoDuplicates ==
    op = "detect_sensor_faults" => Cardinality(Listed(sensor_ret)) = Len(sensor_ret)

\* a list with a sensor flagged for its faults and the sensors flagged as stuck
C30_Witness ==
    /\ op = "detect_sensor_faults"
    /\ Len(sensor_history["temp_zone1"]) >= 5
    /\ RecentFaults("temp_zone1") >= 3
    /\ sensor_ret[1] = "temp_zone1"
    /\ Len(sensor_ret) = 7

-----------------------------------------------------------------------------
(* Further properties of the controllers *)

\* the last PID call computed an output: the channel was seeded and the clock had advanced
PidComputed == PidCalled /\ pre_pid.last_time # NoTime /\ now > pre_pid.last_time

\* C24: with ki = 0 every computation with dt > 0 leaves the channel's integral
\* accumulator at 0, and the output is kp*error + kd*(error - last_error)/dt
\* clamped to [-100, 100].
C24_NoIntegralWhenKiZero ==
    (PidComputed /\ ki = 0) =>
        LET elapsed == now - pre_pid.last_time
            num == kp * err * elapsed + kd * (err - pre_pid.last_error)
            den == GainScale * elapsed
        IN  /\ PidChannel.integral = 0
            /\ ret = (IF num > 100 * den THEN Whole(100)
                      ELSE IF num < -100 * den THEN Whole(-100)
                      ELSE Frac(num, den))

\* a proportional-derivative computation: kp = 2.0, kd = 0.05, error 5 after
\* error -5, one clock unit later: 2.0 * 5 + 0.05 * 10 = 10.5
C24_Witness ==
    /\ PidComputed /\ ki = 0 /\ kp = 40 /\ kd = 1
    /\ err = 5 /\ pre_pid.last_error = -5 /\ now - pre_pid.last_time = 1
    /\ ret = <<21, 2>>

\* C25: while the On-Off temperature channel is heating with deadband d > 0, a
\* call with error >= -d/2 keeps the mode heating and returns +100; while it is
\* cooling, a call with error <= d/2 keeps the mode cooling and returns -100.
C25_ActiveWithinHalfBand ==
    (OnOffCalled /\ op = "calculate_temperature_control" /\ deadband > 0) =>
        /\ (pre_mode = "heating" /\ 2 * err >= -deadband)
              => (temp_state = "heating" /\ ret = Whole(100))
        /\ (pre_mode = "cooling" /\ 2 * err <= deadband)
              => (temp_state = "cooling" /\ ret = Whole(-100))

\* cooling with deadband 3, the measurement one degree below the setpoint
C25_Witness ==
    /\ OnOffCalled /\ op = "calculate_temperature_control"
    /\ deadband = 3 /\ pre_mode = "cooling" /\ err = 1
    /\ temp_state = "cooling" /\ ret = Whole(-100)

-----------------------------------------------------------------------------
(* Further properties of the ThermalModel *)

\* C26: the heating load of a step is max(0, output)/100 of the heating
\* capacity and the cooling load max(0, -output)/100 of the cooling capacity;
\* both are >= 0 and at most one of them is not zero.
C26_Loads ==
    op = "update" =>
        /\ LastOf("hvac_heating") * 100 =
              (IF command[1] > 0 THEN command[1] ELSE 0) * 20000
        /\ LastOf("hvac_cooling") * 100 =
              (IF command[1] < 0 THEN 0 - command[1] ELSE 0) * 15000
        /\ LastOf("hvac_heating") >= 0
        /\ LastOf("hvac_cooling") >= 0
        /\ LastOf("hvac_heating") = 0 \/ LastOf("hvac_cooling") = 0

\* half heating output: 10000 W of heating, no cooling
C26_Witness ==
    /\ op = "update"
    /\ command[1] = 50
    /\ LastOf("hvac_heating") = 10000
    /\ LastOf("hvac_cooling") = 0

\* C27: the mass fractions of the indoor node and of the wall node sum to 1,
\* and the indoor node has the smaller of the two.
C27_MassFractions ==
    op = "update" =>
        /\ IndoorFraction + WallFraction = 10
        /\ IndoorFraction < WallFraction

\* C29: a model that is reset and then updated goes through the same indoor,
\* wall, humidity, outdoor, time and history values, as observed after each
\* update, as a freshly constructed model given the same updates.
C29_ResetEquivalence ==
    (fresh.active /\ op = "update") => Model = fresh.m

\* three updates after a reset
C29_Witness ==
    /\ fresh.active /\ op = "update"
    /\ nupdates = 3
    /\ history["time"] = <<0, 60, 120>>
    /\ fresh.m.history["time"] = <<0, 60, 120>>

\* C28: for each controller, a calculate_temperature_control call leaves the
\* humidity channel's state (PID _humidity_state, On-Off humidity_state, Fuzzy
\* prev_humidity_error) as it was, and a calculate_humidity_control call leaves
\* the temperature channel's state as it was, whatever calls came before
C28_ChannelFrame ==
    [][ /\ op' = "calculate_temperature_control" =>
            /\ pid_humidity_state' = pid_humidity_state
            /\ humidity_state' = humidity_state
            /\ prev_humidity_error' = prev_humidity_error
        /\ op' = "calculate_humidity_control" =>
            /\ pid_temp_state' = pid_temp_state
            /\ temp_state' = temp_state
            /\ prev_temp_error' = prev_temp_error ]_vars

\* a PID humidity call has just run on a controller whose temperature channel an
\* earlier call had written, and both channels now hold different entries
C28_Witness ==
    /\ current_controller = "pid"
    /\ op = "calculate_humidity_control"
    /\ pid_temp_state /= PidInitState
    /\ pid_humidity_state /= PidInitState
    /\ pid_temp_state /= pid_humidity_state

\* C23: after any sequence of Config operations the temperature setpoint lies
\* within [min_temperature, max_temperature], the humidity setpoint within
\* [min_humidity, max_humidity], and the three PID gains are not negative
C23_ConfigValid == ConfigValid(config)

\* the two systems were handed the same measurements in the last cycle
SameMeasurements == (twin.active /\ op = "control_loop") => twin.sensor_data = sensor_ret

\* C22: the measurements handed to the controller in a cycle depend on the state
\* the ThermalModel is in: of two systems given the same setpoints and sensor
\* draws whose models differ in indoor temperature or indoor humidity when a
\* cycle begins, the temperature or the humidity measurement of the cycle differs
C22_MeasurementsFollowModel ==
    [][ (/\ twin.active
         /\ op' = "control_loop"
         /\ nreads' = nreads + 1
         /\ \/ twin.run.model.indoor_temp /= indoor_temp
            \/ twin.run.model.indoor_humidity /= indoor_humidity)
        => \/ twin'.sensor_data.temperature /= sensor_ret'.temperature
           \/ twin'.sensor_data.humidity /= sensor_ret'.humidity ]_vars

\* after two cycles, the second with the heating on, the two models are more
\* than a degree apart and both controllers have been handed the same measurements
C22_Witness ==
    /\ twin.active
    /\ op = "control_loop"
    /\ nreads >= 2
    /\ Abs(twin.run.model.indoor_temp - indoor_temp) > TempScale
    /\ command[1] = 100
    /\ twin.sensor_data = sensor_ret

====
